---- MODULE Spec2Model ----
(***************************************************************************)
(* A model of BMP.C: the 24-bit BMP codec (load_bmp24, save_bmp24) and the *)
(* two in-place transforms (to_grayscale, convolve3x3).                    *)
(*                                                                         *)
(* Files are sequences of bytes.  The two packed headers are serialised    *)
(* little-endian field by field, as the packed structs lie in memory on    *)
(* the little-endian targets the program is written for.  A Pixel24 is the *)
(* record [b, g, r]; a pixel array is a row-major sequence (index          *)
(* y*width + x, kept 1-based here).                                        *)
(*                                                                         *)
(* Spec   : the codec.  A file is loaded, the loaded image is saved and    *)
(*          the written file is loaded again; fopen, malloc and fwrite     *)
(*          may fail.                                                      *)
(* SpecFx : the transforms, applied to pixel arrays drawn from a palette.  *)
(***************************************************************************)
EXTENDS Integers, Sequences, FiniteSets, TLC

\* ------------------------------------------------------------- bounds
MaxW == 5          \* widths of the files of Spec: 1..MaxW (and two bad ones)
MaxH == 3          \* heights of the files of Spec: 1..MaxH (and two bad ones)
MaxSeed == 1       \* pixel patterns of a file or array: 0..MaxSeed
MaxFxW == 4        \* widths of the arrays of SpecFx: 0..MaxFxW
MaxFxH == 3        \* heights of the arrays of SpecFx: 0..MaxFxH
MaxOps == 2        \* transforms applied in a row in SpecFx

\* ------------------------------------------------------------- bytes
\* C's integer division and remainder: the quotient truncates toward zero.
CDiv(a, b) ==
    IF b > 0
    THEN (IF a >= 0 THEN a \div b ELSE -((-a) \div b))
    ELSE (IF a >= 0 THEN -(a \div (-b)) ELSE (-a) \div (-b))

CMod(a, b) == a - b * CDiv(a, b)

\* The k low-order bytes of n, least significant first (two's complement for
\* a negative n): what a k-byte integer field holds on disk.
RECURSIVE LE(_, _)
LE(n, k) == IF k = 0 THEN <<>> ELSE <<n % 256>> \o LE(n \div 256, k - 1)

\* An unsigned field read back from its bytes.  The files of the model keep
\* the top byte of every 32-bit unsigned field below 128.
RECURSIVE U(_)
U(bs) == IF bs = <<>> THEN 0 ELSE bs[1] + 256 * U(Tail(bs))

\* A signed 32-bit field (int32_t) read back from its four bytes.
S32(bs) ==
    bs[1] + 256 * bs[2] + 65536 * bs[3]
    + 16777216 * (IF bs[4] < 128 THEN bs[4] ELSE bs[4] - 256)

\* Bytes pos+1 .. pos+n of a file (pos is the 0-based file position).
Bytes(file, pos, n) == SubSeq(file, pos + 1, pos + n)

RECURSIVE Flatten(_)
Flatten(ss) == IF ss = <<>> THEN <<>> ELSE ss[1] \o Flatten(Tail(ss))

\* ------------------------------------------------------------- headers
BM == 19778                  \* 0x4D42, 'B' 'M' little-endian
SizeofBMPHeader == 14
SizeofBMPInfoHeader == 40

EncodeFH(h) ==
    LE(h.bfType, 2) \o LE(h.bfSize, 4) \o LE(h.bfReserved1, 2)
    \o LE(h.bfReserved2, 2) \o LE(h.bfOffBits, 4)

DecodeFH(bs) ==
    [bfType |-> U(SubSeq(bs, 1, 2)), bfSize |-> U(SubSeq(bs, 3, 6)),
     bfReserved1 |-> U(SubSeq(bs, 7, 8)), bfReserved2 |-> U(SubSeq(bs, 9, 10)),
     bfOffBits |-> U(SubSeq(bs, 11, 14))]

EncodeIH(h) ==
    LE(h.biSize, 4) \o LE(h.biWidth, 4) \o LE(h.biHeight, 4)
    \o LE(h.biPlanes, 2) \o LE(h.biBitCount, 2) \o LE(h.biCompression, 4)
    \o LE(h.biSizeImage, 4) \o LE(h.biXPelsPerMeter, 4)
    \o LE(h.biYPelsPerMeter, 4) \o LE(h.biClrUsed, 4)
    \o LE(h.biClrImportant, 4)

DecodeIH(bs) ==
    [biSize |-> U(SubSeq(bs, 1, 4)), biWidth |-> S32(SubSeq(bs, 5, 8)),
     biHeight |-> S32(SubSeq(bs, 9, 12)), biPlanes |-> U(SubSeq(bs, 13, 14)),
     biBitCount |-> U(SubSeq(bs, 15, 16)),
     biCompression |-> U(SubSeq(bs, 17, 20)),
     biSizeImage |-> U(SubSeq(bs, 21, 24)),
     biXPelsPerMeter |-> S32(SubSeq(bs, 25, 28)),
     biYPelsPerMeter |-> S32(SubSeq(bs, 29, 32)),
     biClrUsed |-> U(SubSeq(bs, 33, 36)),
     biClrImportant |-> U(SubSeq(bs, 37, 40))]

NoFH == DecodeFH(LE(0, 14))
NoIH == DecodeIH(LE(0, 40))

\* ------------------------------------------------------------- pixels
Pix(r, g, b) == [b |-> b, g |-> g, r |-> r]

\* A Pixel24 as it lies in memory and in the file: b, g, r.
PixelBytes(p) == <<p.b, p.g, p.r>>

BytesPixel(bs) == [b |-> bs[1], g |-> bs[2], r |-> bs[3]]

\* malloc's uninitialised memory.
Junk == [b |-> -1, g |-> -1, r |-> -1]

\* The colours the files and arrays of the model are painted with.  The
\* fifth and sixth have a luma 0.299r + 0.587g + 0.114b of exactly 22.5 and
\* 59.5.
Palette ==
    << Pix(255, 0, 0), Pix(0, 255, 0), Pix(0, 0, 255), Pix(255, 255, 255),
       Pix(0, 36, 12), Pix(0, 80, 110), Pix(0, 0, 0), Pix(200, 100, 50),
       Pix(90, 90, 90), Pix(17, 130, 240), Pix(128, 64, 32) >>

Colour(seed, i) == Palette[((seed * 4 + i) % Len(Palette)) + 1]

\* ------------------------------------------------------------- state
VARIABLES
    disk,        \* the bytes of the file the codec reads or writes
    pc,          \* the statement the program is at
    call,        \* "load", "save" or "reload": the call in progress
    fstate,      \* the FILE *f of the call: "none", "open" or "closed"
    fopens,      \* successful fopen calls of the call in progress
    fcloses,     \* fclose calls of the call in progress
    fpos,        \* the file position of f
    fh, ih,      \* the locals fh and ih of load_bmp24 / save_bmp24
    width, height, padding, y,   \* the locals of the same names
    pixels,      \* load_bmp24's malloc'ed array
    heap,        \* that array: "none", "live" or "freed"
    out_pixels,  \* main's img pointer: "NULL" or "set"
    img,         \* the array main's img points to
    out_ih,      \* main's ih, filled by load_bmp24, passed to save_bmp24
    W, H,        \* main's W and H
    ret,         \* the value the call returned, -1 while it runs
    stderr_msg,  \* what the call printed on stderr, "" for nothing
    faults,      \* the library calls that have failed so far
    orig,        \* the array that was handed to save_bmp24
    hist,        \* the transforms applied so far, oldest first
    pre,         \* the array before the last transform
    kernel,      \* the kernel of the last convolve3x3
    fp_low       \* the colours whose luma sum this build rounds below a tie

fileVars == <<fstate, fopens, fcloses, fpos>>
localVars == <<fh, ih, width, height, padding, y>>
mainVars == <<out_pixels, img, out_ih, W, H>>
fxVars == <<hist, pre, kernel, fp_low>>

vars ==
    <<disk, pc, call, fstate, fopens, fcloses, fpos, fh, ih, width, height,
      padding, y, pixels, heap, out_pixels, img, out_ih, W, H, ret,
      stderr_msg, faults, orig, hist, pre, kernel, fp_low>>

\* ------------------------------------------------------------- input files
\* The number of bytes that brings a row of n bytes to a multiple of 4.
FormatPad(n) == (4 - (n % 4)) % 4

\* A file on disk: the two headers, the bytes up to the pixel data, and the
\* rows bottom-up, each followed by padding bytes that are not zero.
MakeFile(p) ==
    LET ww == IF p.w > 0 THEN p.w ELSE 1
        hh == IF p.h > 0 THEN p.h ELSE 1
        pad == FormatPad(3 * ww)
        row(k) ==
            Flatten([x \in 1..ww |-> PixelBytes(Colour(p.seed, k * ww + x - 1))])
            \o [i \in 1..pad |-> 170 + i]
        data == Flatten([k \in 1..hh |-> row(k - 1)])
        fhdr == [bfType |-> p.sig, bfSize |-> p.off + Len(data),
                 bfReserved1 |-> 7, bfReserved2 |-> 9, bfOffBits |-> p.off]
        ihdr == [biSize |-> SizeofBMPInfoHeader, biWidth |-> p.w,
                 biHeight |-> p.h, biPlanes |-> 1, biBitCount |-> p.bits,
                 biCompression |-> p.comp, biSizeImage |-> 0,
                 biXPelsPerMeter |-> 2835, biYPelsPerMeter |-> -2835,
                 biClrUsed |-> 0, biClrImportant |-> 0]
        gap == [i \in 1..(p.off - SizeofBMPHeader - SizeofBMPInfoHeader) |-> 238]
        all == EncodeFH(fhdr) \o EncodeIH(ihdr) \o gap \o data
    IN  CASE p.cut = "h20" -> SubSeq(all, 1, 20)
          [] p.cut = "h53" -> SubSeq(all, 1, 53)
          [] p.cut = "minus1" -> SubSeq(all, 1, Len(all) - 1)
          [] p.cut = "minus4" -> SubSeq(all, 1, Len(all) - 4)
          [] OTHER -> all

InputParams ==
    [sig : {BM, 16973}, bits : {24, 8}, comp : {0, 1},
     w : {-10, 0} \cup (1..MaxW), h : {-1, 0} \cup (1..MaxH),
     off : {54, 57}, seed : 0..MaxSeed,
     cut : {"full", "h20", "h53", "minus1", "minus4"}]

InputFiles == {MakeFile(p) : p \in InputParams}

\* ------------------------------------------------------------- load_bmp24
\* The messages of load_bmp24 and save_bmp24 on stderr.
MsgOpen == "No se pudo abrir el archivo"
MsgSignature == "No es un BMP valido (firma BM)."
MsgFormat == "Solo se soporta BMP 24-bpp sin compresion."
MsgDimensions == "Solo se soportan dimensiones positivas."
MsgShortRow == "Lectura de fila incompleta."
MsgCreate == "No se pudo crear el archivo"

\* fclose(f).  The position of a closed file means nothing and is left as
\* it was.
Fclose ==
    /\ fstate' = "closed"
    /\ fcloses' = fcloses + 1
    /\ UNCHANGED <<fopens, fpos>>

\* `return r;` of load_bmp24 or save_bmp24, after printing m ("" for nothing).
Return(r, m) ==
    /\ ret' = r
    /\ stderr_msg' = m
    /\ pc' = IF call = "save" THEN "save_return" ELSE "load_return"

load_fopen ==
    /\ pc = "load_fopen"
    /\ \E ok \in BOOLEAN :
         IF ok
         THEN /\ fstate' = "open"
              /\ fopens' = fopens + 1
              /\ fpos' = 0
              /\ pc' = "load_headers"
              /\ UNCHANGED <<fcloses, ret, stderr_msg, faults>>
         ELSE /\ faults' = faults \cup {"fopen"}
              /\ Return(0, MsgOpen)
              /\ UNCHANGED fileVars
    /\ UNCHANGED <<disk, call, localVars, pixels, heap, mainVars, orig, fxVars>>

\* fread(&fh, sizeof(fh), 1, f) and fread(&ih, sizeof(ih), 1, f).
load_read_headers ==
    /\ pc = "load_headers"
    /\ IF Len(disk) - fpos < SizeofBMPHeader
          \/ Len(disk) - fpos - SizeofBMPHeader < SizeofBMPInfoHeader
       THEN /\ Fclose
            /\ Return(0, "")
            /\ UNCHANGED <<fh, ih>>
       ELSE /\ fh' = DecodeFH(Bytes(disk, fpos, SizeofBMPHeader))
            /\ ih' = DecodeIH(Bytes(disk, fpos + SizeofBMPHeader,
                                    SizeofBMPInfoHeader))
            /\ fpos' = fpos + SizeofBMPHeader + SizeofBMPInfoHeader
            /\ pc' = "load_validate"
            /\ UNCHANGED <<fstate, fopens, fcloses, ret, stderr_msg>>
    /\ UNCHANGED <<disk, call, width, height, padding, y, pixels, heap,
                   mainVars, faults, orig, fxVars>>

BadSignature(h) == h.bfType # BM

BadFormat(h) == h.biBitCount # 24 \/ h.biCompression # 0

\* BadDimensions letting a zero width or height pass.
BadDimensions_strict(h) == h.biWidth < 0 \/ h.biHeight < 0

BadDimensions(h) == h.biWidth <= 0 \/ h.biHeight <= 0

load_validate ==
    /\ pc = "load_validate"
    /\ IF BadSignature(fh)
       THEN Fclose /\ Return(0, MsgSignature)
       ELSE IF BadFormat(ih)
       THEN Fclose /\ Return(0, MsgFormat)
       ELSE IF BadDimensions(ih)
       THEN Fclose /\ Return(0, MsgDimensions)
       ELSE /\ pc' = "load_alloc"
            /\ UNCHANGED <<fileVars, ret, stderr_msg>>
    /\ UNCHANGED <<disk, call, localVars, pixels, heap, mainVars, faults,
                   orig, fxVars>>

\* int padding = (4 - (row_bytes % 4)) % 4; of load_bmp24.
load_padding(w) == CMod(4 - CMod(w * 3, 4), 4)

\* fseek to the pixel data, the locals, and malloc.
load_alloc ==
    /\ pc = "load_alloc"
    /\ width' = ih.biWidth
    /\ height' = ih.biHeight
    /\ padding' = load_padding(ih.biWidth)
    /\ \E ok \in BOOLEAN :
         IF ok
         THEN /\ pixels' = [i \in 1..(ih.biWidth * ih.biHeight) |-> Junk]
              /\ heap' = "live"
              /\ fpos' = fh.bfOffBits
              /\ y' = 0
              /\ pc' = "load_rows"
              /\ UNCHANGED <<fstate, fopens, fcloses, ret, stderr_msg, faults>>
         ELSE /\ faults' = faults \cup {"malloc"}
              /\ Fclose
              /\ Return(0, "")
              /\ UNCHANGED <<pixels, heap, y>>
    /\ UNCHANGED <<disk, call, fh, ih, mainVars, orig, fxVars>>

\* dest_y without the vertical flip.
dest_y_noflip(h, yy) == yy

\* int dest_y = height - 1 - y;
dest_y(h, yy) == h - 1 - yy

\* The array with row dy replaced by the w pixels the bytes bs hold.
StoreRow(arr, w, dy, bs) ==
    [i \in 1..Len(arr) |->
        IF dy * w < i /\ i <= dy * w + w
        THEN BytesPixel(SubSeq(bs, 3 * (i - dy * w - 1) + 1, 3 * (i - dy * w)))
        ELSE arr[i]]

\* load_row without the free(pixels) of the short read.
load_row_leak ==
    /\ pc = "load_rows"
    /\ y < height
    /\ IF Len(disk) - fpos < 3 * width
       THEN /\ Fclose
            /\ Return(0, MsgShortRow)
            /\ UNCHANGED <<pixels, y, heap>>
       ELSE /\ pixels' = StoreRow(pixels, width, dest_y(height, y),
                                  Bytes(disk, fpos, 3 * width))
            /\ fpos' = fpos + 3 * width + padding
            /\ y' = y + 1
            /\ UNCHANGED <<fstate, fopens, fcloses, heap, ret, stderr_msg, pc>>
    /\ UNCHANGED <<disk, call, fh, ih, width, height, padding, mainVars,
                   faults, orig, fxVars>>

\* One turn of the row loop: fread of width pixels, then the fseek over the
\* padding.  fread comes up short when fewer than 3*width bytes are left.
load_row ==
    /\ pc = "load_rows"
    /\ y < height
    /\ IF Len(disk) - fpos < 3 * width
       THEN /\ heap' = "freed"
            /\ Fclose
            /\ Return(0, MsgShortRow)
            /\ UNCHANGED <<pixels, y>>
       ELSE /\ pixels' = StoreRow(pixels, width, dest_y(height, y),
                                  Bytes(disk, fpos, 3 * width))
            /\ fpos' = fpos + 3 * width + padding
            /\ y' = y + 1
            /\ UNCHANGED <<fstate, fopens, fcloses, heap, ret, stderr_msg, pc>>
    /\ UNCHANGED <<disk, call, fh, ih, width, height, padding, mainVars,
                   faults, orig, fxVars>>

\* After the loop: fclose, the three out-parameters, return 1.
load_finish ==
    /\ pc = "load_rows"
    /\ ~(y < height)
    /\ Fclose
    /\ out_ih' = ih
    /\ out_pixels' = "set"
    /\ img' = pixels
    /\ Return(1, "")
    /\ UNCHANGED <<disk, call, localVars, pixels, heap, W, H, faults, orig,
                   fxVars>>

\* ------------------------------------------------------------- save_bmp24
\* save_padding without the outer % 4: 4 where no padding is needed.
save_padding_nomod(w) == 4 - CMod(w * 3, 4)

\* int padding = (4 - (row_bytes % 4)) % 4; of save_bmp24.
save_padding(w) == CMod(4 - CMod(w * 3, 4), 4)

\* uint32_t image_size = (row_bytes + padding) * (uint32_t)height;
\* The field is 32 bits wide: EncodeIH keeps its four low-order bytes.
image_size(w, h) == (w * 3 + save_padding(w)) * h

\* The BMPInfoHeader save_bmp24 writes: the caller's, with five fields set.
save_ih(src_ih) ==
    [src_ih EXCEPT !.biSize = SizeofBMPInfoHeader,
                   !.biCompression = 0,
                   !.biBitCount = 24,
                   !.biPlanes = 1,
                   !.biSizeImage = image_size(src_ih.biWidth, src_ih.biHeight)]

\* The BMPHeader save_bmp24 writes.
save_fh(src_ih) ==
    [bfType |-> BM,
     bfSize |-> SizeofBMPHeader + SizeofBMPInfoHeader
                + image_size(src_ih.biWidth, src_ih.biHeight),
     bfReserved1 |-> 0,
     bfReserved2 |-> 0,
     bfOffBits |-> SizeofBMPHeader + SizeofBMPInfoHeader]

\* fopen(filename, "wb"): the file is created empty.
save_fopen ==
    /\ pc = "save_fopen"
    /\ \E ok \in BOOLEAN :
         IF ok
         THEN /\ fstate' = "open"
              /\ fopens' = fopens + 1
              /\ fpos' = 0
              /\ disk' = <<>>
              /\ pc' = "save_headers"
              /\ UNCHANGED <<fcloses, ret, stderr_msg, faults>>
         ELSE /\ faults' = faults \cup {"fopen"}
              /\ Return(0, MsgCreate)
              /\ UNCHANGED <<fileVars, disk>>
    /\ UNCHANGED <<call, localVars, pixels, heap, mainVars, orig, fxVars>>

\* The locals, the two headers and their two fwrite calls.  A failed fwrite
\* leaves the file as it was.
save_headers ==
    /\ pc = "save_headers"
    /\ width' = out_ih.biWidth
    /\ height' = out_ih.biHeight
    /\ padding' = save_padding(out_ih.biWidth)
    /\ ih' = save_ih(out_ih)
    /\ fh' = save_fh(out_ih)
    /\ \E failed \in {"none", "fwrite_fh", "fwrite_ih"} :
         CASE failed = "fwrite_fh" ->
                /\ faults' = faults \cup {failed}
                /\ Fclose
                /\ Return(0, "")
                /\ UNCHANGED <<disk, y>>
           [] failed = "fwrite_ih" ->
                /\ faults' = faults \cup {failed}
                /\ disk' = disk \o EncodeFH(fh')
                /\ Fclose
                /\ Return(0, "")
                /\ UNCHANGED y
           [] OTHER ->
                /\ disk' = disk \o EncodeFH(fh') \o EncodeIH(ih')
                /\ fpos' = fpos + SizeofBMPHeader + SizeofBMPInfoHeader
                /\ y' = out_ih.biHeight - 1
                /\ pc' = "save_rows"
                /\ UNCHANGED <<fstate, fopens, fcloses, ret, stderr_msg, faults>>
    /\ UNCHANGED <<call, pixels, heap, mainVars, orig, fxVars>>

\* RowBytes with the channels of a pixel written r, g, b.
RowBytes_rgb(arr, w, yy) ==
    Flatten([x \in 1..w |->
                <<arr[yy * w + x].r, arr[yy * w + x].g, arr[yy * w + x].b>>])

\* const Pixel24 *row = &pixels[y * width]; and the width pixels from there.
RowBytes(arr, w, yy) ==
    Flatten([x \in 1..w |-> PixelBytes(arr[yy * w + x])])

\* One turn of the row loop: the fwrite of the row, whose result is tested,
\* and the fwrite of the padding, whose result is not.
save_row ==
    /\ pc = "save_rows"
    /\ y >= 0
    /\ \E rowok \in BOOLEAN,
          padok \in (IF padding # 0 THEN BOOLEAN ELSE {TRUE}) :
         IF ~rowok
         THEN /\ padok
              /\ faults' = faults \cup {"fwrite_row"}
              /\ Fclose
              /\ Return(0, "")
              /\ UNCHANGED <<disk, y>>
         ELSE /\ disk' = disk \o RowBytes(img, width, y)
                         \o (IF padok THEN [i \in 1..padding |-> 0] ELSE <<>>)
              /\ fpos' = Len(disk')
              /\ faults' = IF padok THEN faults ELSE faults \cup {"fwrite_pad"}
              /\ y' = y - 1
              /\ UNCHANGED <<fstate, fopens, fcloses, ret, stderr_msg, pc>>
    /\ UNCHANGED <<call, fh, ih, width, height, padding, pixels, heap,
                   mainVars, orig, fxVars>>

\* After the loop: fclose, return 1.
save_finish ==
    /\ pc = "save_rows"
    /\ ~(y >= 0)
    /\ Fclose
    /\ Return(1, "")
    /\ UNCHANGED <<disk, call, localVars, pixels, heap, mainVars, faults,
                   orig, fxVars>>

\* ------------------------------------------------------------- callers
\* A call begins: nothing returned or printed yet, no FILE.
BeginCall(c, at) ==
    /\ call' = c
    /\ pc' = at
    /\ fstate' = "none"
    /\ fopens' = 0
    /\ fcloses' = 0
    /\ fpos' = 0
    /\ ret' = -1
    /\ stderr_msg' = ""

\* main after load_bmp24: return 1 on failure; otherwise W and H are taken
\* from the header and the image goes on to save_bmp24.
main_after_load ==
    /\ pc = "load_return"
    /\ call = "load"
    /\ IF ret = 0
       THEN /\ pc' = "exit"
            /\ UNCHANGED <<call, fileVars, ret, stderr_msg, W, H, orig>>
       ELSE /\ W' = out_ih.biWidth
            /\ H' = out_ih.biHeight
            /\ orig' = img
            /\ BeginCall("save", "save_fopen")
    /\ UNCHANGED <<disk, localVars, pixels, heap, out_pixels, img, out_ih,
                   faults, fxVars>>

\* main after save_bmp24: one of two messages.
main_after_save ==
    /\ pc = "save_return"
    /\ pc' = "saved"
    /\ UNCHANGED <<disk, call, fileVars, localVars, pixels, heap, mainVars,
                   ret, stderr_msg, faults, orig, fxVars>>

\* The file save_bmp24 reported written is decoded again, into a new array.
reload ==
    /\ pc = "saved"
    /\ ret = 1
    /\ BeginCall("reload", "load_fopen")
    /\ pixels' = <<>>
    /\ heap' = "none"
    /\ out_pixels' = "NULL"
    /\ img' = <<>>
    /\ UNCHANGED <<disk, localVars, out_ih, W, H, faults, orig, fxVars>>

\* ------------------------------------------------------------- Spec
Init ==
    /\ disk \in InputFiles
    /\ pc = "load_fopen"
    /\ call = "load"
    /\ fstate = "none"
    /\ fopens = 0
    /\ fcloses = 0
    /\ fpos = 0
    /\ fh = NoFH
    /\ ih = NoIH
    /\ width = 0
    /\ height = 0
    /\ padding = 0
    /\ y = 0
    /\ pixels = <<>>
    /\ heap = "none"
    /\ out_pixels = "NULL"
    /\ img = <<>>
    /\ out_ih = NoIH
    /\ W = 0
    /\ H = 0
    /\ ret = -1
    /\ stderr_msg = ""
    /\ faults = {}
    /\ orig = <<>>
    /\ hist = <<>>
    /\ pre = <<>>
    /\ kernel = <<>>
    /\ fp_low = {}

Next ==
    \/ load_fopen
    \/ load_read_headers
    \/ load_validate
    \/ load_alloc
    \/ load_row
    \/ load_finish
    \/ save_fopen
    \/ save_headers
    \/ save_row
    \/ save_finish
    \/ main_after_load
    \/ main_after_save
    \/ reload

Spec == Init /\ [][Next]_vars

\* ------------------------------------------------------------- to_grayscale
clamp_int_to_u8(v) == IF v < 0 THEN 0 ELSE IF v > 255 THEN 255 ELSE v

\* 0.299*r + 0.587*g + 0.114*b, in thousandths.
Luma1000(p) == 299 * p.r + 587 * p.g + 114 * p.b

\* The colours of the palette whose luma plus 0.5 is a whole number.
TieColours ==
    {Palette[i] : i \in {j \in 1..Len(Palette) :
                            (Luma1000(Palette[j]) + 500) % 1000 = 0}}

\* gray_of without the + 0.5: the luma truncated.
gray_of_trunc(p) == Luma1000(p) \div 1000

\* gray_of with the blue weight mistyped as 0.144.
gray_of_b144(p) == (299 * p.r + 587 * p.g + 144 * p.b + 500) \div 1000

\* int gray = (int)(0.299 * r + 0.587 * g + 0.114 * b + 0.5);
\* The sum is a double.  0.299, 0.587 and 0.114 are not binary fractions, so
\* the double sum is the exact sum up to a rounding error far below 1/1000:
\* the cast yields the exact sum truncated, except where the exact sum is a
\* whole number k, where the double is k or just below it and the cast
\* yields k or k-1.  Which of the two depends on the colour and on how the
\* build evaluates the expression (for (0,36,12), exact sum 23, gcc -O2 on
\* x86-64 yields 22); fp_low holds the colours where it is k-1.
gray_of(p) ==
    LET s == Luma1000(p) + 500
    IN  IF s % 1000 = 0 /\ p \in fp_low
        THEN (s \div 1000) - 1
        ELSE s \div 1000

to_grayscale ==
    /\ pc = "menu"
    /\ Len(hist) < MaxOps
    /\ pre' = img
    /\ img' = [i \in 1..(W * H) |->
                  LET g8 == clamp_int_to_u8(gray_of(img[i]))
                  IN  [b |-> g8, g |-> g8, r |-> g8]]
    /\ hist' = Append(hist, "gray")
    /\ UNCHANGED <<disk, pc, call, fileVars, localVars, pixels, heap,
                   out_pixels, out_ih, W, H, ret, stderr_msg, faults, orig,
                   kernel, fp_low>>

\* ------------------------------------------------------------- convolve3x3
\* The kernels of main's menu (Sobel X, Sobel Y, Laplacian) and three of the
\* kernels a user may type in.  The weights are floats holding whole
\* numbers; with them every product and sum below is exact in float.
SobelX == << <<-1, 0, 1>>, <<-2, 0, 2>>, <<-1, 0, 1>> >>
SobelY == << <<-1, -2, -1>>, <<0, 0, 0>>, <<1, 2, 1>> >>
Laplacian == << <<0, -1, 0>>, <<-1, 4, -1>>, <<0, -1, 0>> >>
Box == << <<1, 1, 1>>, <<1, 1, 1>>, <<1, 1, 1>> >>
Sharpen == << <<0, -1, 0>>, <<-1, 5, -1>>, <<0, -1, 0>> >>
NegSum == << <<0, -1, 0>>, <<-1, 1, -1>>, <<0, -1, 0>> >>

Kernels == {SobelX, SobelY, Laplacian, Box, Sharpen, NegSum}

KernelSum(k) ==
    k[1][1] + k[1][2] + k[1][3] + k[2][1] + k[2][2] + k[2][3]
    + k[3][1] + k[3][2] + k[3][3]

\* sumk_of without the test for zero, normalising by the absolute weights.
sumk_abs(k) ==
    LET a(v) == IF v < 0 THEN -v ELSE v
    IN  a(k[1][1]) + a(k[1][2]) + a(k[1][3]) + a(k[2][1]) + a(k[2][2])
        + a(k[2][3]) + a(k[3][1]) + a(k[3][2]) + a(k[3][3])

\* sumk after `if (sumk == 0.f) sumk = 1.f;`
sumk_of(k) == IF KernelSum(k) = 0 THEN 1 ELSE KernelSum(k)

\* acc: the 3x3 window of src centred on (x, yy), weighted by k[dy+1][dx+1].
conv_acc(src, w, x, yy, k) ==
    LET t(dy, dx) == src[(yy + dy) * w + (x + dx) + 1] * k[dy + 2][dx + 2]
    IN  t(-1, -1) + t(-1, 0) + t(-1, 1) + t(0, -1) + t(0, 0) + t(0, 1)
        + t(1, -1) + t(1, 0) + t(1, 1)

\* int val = (int)(acc / sumk + 0.5f); the cast truncates toward zero.
conv_val(acc, sumk) == CDiv(2 * acc + sumk, 2 * sumk)

\* The pixels of the two interior loops.
IsInterior(x, yy, w, h) == 1 <= yy /\ yy < h - 1 /\ 1 <= x /\ x < w - 1

\* BorderCopied without the copy of the last column.
BorderCopied_noright(x, yy, w, h) == yy = 0 \/ yy = h - 1 \/ x = 0

\* The pixels the two border loops copy from src.
BorderCopied(x, yy, w, h) == yy = 0 \/ yy = h - 1 \/ x = 0 \/ x = w - 1

\* dst when the loops are done; -1 is a byte no loop has written.
conv_dst(src, w, h, k) ==
    [i \in 1..(w * h) |->
        LET x == (i - 1) % w
            yy == (i - 1) \div w
        IN  IF BorderCopied(x, yy, w, h)
            THEN src[i]
            ELSE IF IsInterior(x, yy, w, h)
            THEN clamp_int_to_u8(conv_val(conv_acc(src, w, x, yy, k),
                                          sumk_of(k)))
            ELSE -1]

\* main passes the W and H of a loaded image: both are at least 1.
convolve3x3(k) ==
    /\ pc = "menu"
    /\ Len(hist) < MaxOps
    /\ W >= 1
    /\ H >= 1
    /\ pre' = img
    /\ kernel' = k
    /\ \E ok \in BOOLEAN :
         IF ok
         THEN /\ LET src == [i \in 1..(W * H) |-> img[i].r]
                     dst == conv_dst(src, W, H, k)
                 IN  img' = [i \in 1..(W * H) |->
                                [b |-> dst[i], g |-> dst[i], r |-> dst[i]]]
              /\ hist' = Append(hist, "conv")
              /\ UNCHANGED faults
         ELSE /\ faults' = faults \cup {"malloc"}
              /\ hist' = Append(hist, "conv_nomem")
              /\ UNCHANGED img
    /\ UNCHANGED <<disk, pc, call, fileVars, localVars, pixels, heap,
                   out_pixels, out_ih, W, H, ret, stderr_msg, orig, fp_low>>

\* ------------------------------------------------------------- SpecFx
InitFx ==
    /\ W \in 0..MaxFxW
    /\ H \in 0..MaxFxH
    /\ \E seed \in 0..MaxSeed : img = [i \in 1..(W * H) |-> Colour(seed, i - 1)]
    /\ fp_low \in SUBSET TieColours
    /\ pc = "menu"
    /\ out_pixels = "set"
    /\ heap = "live"
    /\ disk = <<>>
    /\ call = "load"
    /\ fstate = "closed"
    /\ fopens = 1
    /\ fcloses = 1
    /\ fpos = 0
    /\ fh = NoFH
    /\ ih = NoIH
    /\ width = 0
    /\ height = 0
    /\ padding = 0
    /\ y = 0
    /\ pixels = <<>>
    /\ out_ih = NoIH
    /\ ret = 1
    /\ stderr_msg = ""
    /\ faults = {}
    /\ orig = <<>>
    /\ hist = <<>>
    /\ pre = <<>>
    /\ kernel = <<>>

NextFx ==
    \/ to_grayscale
    \/ \E k \in Kernels : convolve3x3(k)

SpecFx == InitFx /\ [][NextFx]_vars

\* ------------------------------------------------------------- the file format, as the claims read it
\* The 32-bit little-endian number at byte offset `at` of a file.
RawU32(file, at) ==
    file[at + 1] + 256 * file[at + 2] + 65536 * file[at + 3]
    + 16777216 * file[at + 4]

\* A 32-bit two's complement field at offset `at` is zero or negative.
RawNonPositive(file, at) ==
    \/ file[at + 4] >= 128
    \/ \A i \in 1..4 : file[at + i] = 0

\* The least p >= 0 that makes n + p a multiple of 4.
SmallestPad(n) ==
    CHOOSE p \in 0..3 :
        /\ (n + p) % 4 = 0
        /\ \A q \in 0..(p - 1) : (n + q) % 4 # 0

\* n rounded up to the next multiple of 4.
RoundUp4(n) == CHOOSE m \in n..(n + 3) : m % 4 = 0

\* The pixel at column x of the k-th row stored in a file whose pixel data
\* start at offset off and whose rows are w pixels wide.
StoredPixel(file, off, w, k, x) ==
    LET at == off + k * RoundUp4(3 * w) + 3 * x
    IN  [b |-> file[at + 1], g |-> file[at + 2], r |-> file[at + 3]]

\* The pixel at row yy, column x of a top-down array w pixels wide.
At(arr, w, yy, x) == arr[yy * w + x + 1]

LoadReturned == call = "load" /\ pc = "load_return"
SaveReturned == call = "save" /\ pc = "save_return"
ReloadReturned == call = "reload" /\ pc = "load_return"

\* ------------------------------------------------------------- C1
\* C1: when an image of width >= 1 and height >= 1 has been saved and the
\* written file loaded again, and no library call (fopen, malloc, fwrite)
\* failed, the second load succeeds and yields an array of the same width
\* and height in which every pixel has the three channel bytes of the
\* array that was saved.
RoundTrip ==
    (ReloadReturned /\ faults = {}) =>
        /\ ret = 1
        /\ out_pixels = "set"
        /\ out_ih.biWidth = W
        /\ out_ih.biHeight = H
        /\ Len(img) = W * H
        /\ \A yy \in 0..(H - 1), x \in 0..(W - 1) :
               /\ At(img, W, yy, x).r = At(orig, W, yy, x).r
               /\ At(img, W, yy, x).g = At(orig, W, yy, x).g
               /\ At(img, W, yy, x).b = At(orig, W, yy, x).b

\* A 5x3 image (one padding byte per row) with differing rows and channels
\* has made the round trip.
RoundTripWitness ==
    /\ ReloadReturned
    /\ faults = {}
    /\ ret = 1
    /\ W = 5
    /\ H = 3
    /\ img = orig
    /\ At(orig, W, 0, 0) # At(orig, W, 2, 0)
    /\ At(orig, W, 0, 0).r # At(orig, W, 0, 0).b

\* ------------------------------------------------------------- C2
\* The header of the file on disk, read from its raw bytes.
HeaderShort == Len(disk) < 54
HeaderSigOK == disk[1] = 66 /\ disk[2] = 77
HeaderFormatOK ==
    /\ disk[29] = 24
    /\ disk[30] = 0
    /\ \A i \in 31..34 : disk[i] = 0
HeaderDimsOK == ~RawNonPositive(disk, 18) /\ ~RawNonPositive(disk, 22)

Rejected(m) ==
    /\ ret = 0
    /\ stderr_msg = m
    /\ out_pixels = "NULL"
    /\ heap # "live"

\* C2: load_bmp24 rejects, with return value 0, no pixel array handed out,
\* and its own outcome per cause, in this order: a file shorter than the 54
\* header bytes (nothing printed); a signature other than 'BM' (the
\* signature message); a bit count other than 24 or a compression other
\* than 0 (the format message); a width or height <= 0 (the dimensions
\* message).
Rejections ==
    (LoadReturned /\ "fopen" \notin faults) =>
        /\ HeaderShort => Rejected("")
        /\ (~HeaderShort /\ ~HeaderSigOK) => Rejected(MsgSignature)
        /\ (~HeaderShort /\ HeaderSigOK /\ ~HeaderFormatOK) =>
               Rejected(MsgFormat)
        /\ (~HeaderShort /\ HeaderSigOK /\ HeaderFormatOK /\ ~HeaderDimsOK) =>
               Rejected(MsgDimensions)
        /\ Cardinality({"", MsgSignature, MsgFormat, MsgDimensions}) = 4

\* A complete 24-bit uncompressed 'BM' file of width -10 has been rejected
\* for its dimensions.
RejectionsWitness ==
    /\ LoadReturned
    /\ ~HeaderShort
    /\ HeaderSigOK
    /\ HeaderFormatOK
    /\ SubSeq(disk, 19, 22) = <<246, 255, 255, 255>>
    /\ Rejected(MsgDimensions)

\* ------------------------------------------------------------- C3
\* C3: after a successful load of an image of height H, the k-th row stored
\* in the file is row H-1-k of the array (so the first stored row is the
\* bottom row and the last stored row is row 0); and the k-th row
\* save_bmp24 stores is row H-1-k of the array it was given.
Orientation ==
    /\ (LoadReturned /\ ret = 1) =>
           \A k \in 0..(out_ih.biHeight - 1), x \in 0..(out_ih.biWidth - 1) :
               At(img, out_ih.biWidth, out_ih.biHeight - 1 - k, x)
                   = StoredPixel(disk, RawU32(disk, 10), out_ih.biWidth, k, x)
    /\ (SaveReturned /\ ret = 1 /\ faults = {}) =>
           \A k \in 0..(H - 1), x \in 0..(W - 1) :
               StoredPixel(disk, 54, W, k, x) = At(orig, W, H - 1 - k, x)

\* A 1x3 file storing red, green, blue has been loaded as blue (top), green,
\* red (bottom) and saved again, with red stored first.
OrientationWitness ==
    /\ SaveReturned
    /\ ret = 1
    /\ faults = {}
    /\ W = 1
    /\ H = 3
    /\ img = <<Pix(0, 0, 255), Pix(0, 255, 0), Pix(255, 0, 0)>>
    /\ StoredPixel(disk, 54, 1, 0, 0) = Pix(255, 0, 0)
    /\ StoredPixel(disk, 54, 1, 2, 0) = Pix(0, 0, 255)

\* ------------------------------------------------------------- C4
\* C4: the padding load_bmp24 and save_bmp24 compute for a width >= 1 is the
\* least value in 0..3 that makes width*3 + padding a multiple of 4; a
\* stored row takes width*3 rounded up to the next multiple of 4 bytes, on
\* reading and on writing; and the image size save_bmp24 writes is that row
\* length times the height.
PaddingCorrect ==
    /\ pc = "load_rows" =>
           /\ padding = SmallestPad(3 * width)
           /\ fpos = fh.bfOffBits + y * RoundUp4(3 * width)
    /\ pc = "save_rows" =>
           /\ padding = SmallestPad(3 * width)
           /\ 3 * width + padding = RoundUp4(3 * width)
           /\ ih.biSizeImage = RoundUp4(3 * width) * height
           /\ ("fwrite_pad" \notin faults =>
                  Len(disk) = 54 + (height - 1 - y) * RoundUp4(3 * width))
    /\ (SaveReturned /\ ret = 1 /\ faults = {}) =>
           /\ RawU32(disk, 34) = RoundUp4(3 * W) * H
           /\ Len(disk) = 54 + RoundUp4(3 * W) * H

\* A 5x2 image (15 bytes a row, one of padding) has been written.
PaddingWitness ==
    /\ SaveReturned
    /\ ret = 1
    /\ faults = {}
    /\ W = 5
    /\ H = 2
    /\ padding = 1
    /\ Len(disk) = 54 + 32

\* ------------------------------------------------------------- C9
\* C9: load_bmp24 and save_bmp24 never close a file more often than they
\* opened one, and return with the file they opened closed exactly once;
\* when a row read comes up short the array is freed before the return; and
\* an array is handed to the caller exactly when load_bmp24 returns 1.
ResourcesReleased ==
    /\ fcloses <= fopens
    /\ fopens <= 1
    /\ pc \in {"load_return", "save_return"} =>
           /\ fstate # "open"
           /\ fcloses = fopens
           /\ ("fopen" \notin faults => fopens = 1)
    /\ pc = "load_return" =>
           /\ stderr_msg = MsgShortRow => heap = "freed"
           /\ ret = 0 => (heap # "live" /\ out_pixels = "NULL")
           /\ ret = 1 => (heap = "live" /\ out_pixels = "set")

\* A row read came up short after an earlier row had been stored.
ResourcesWitness ==
    /\ LoadReturned
    /\ stderr_msg = MsgShortRow
    /\ y >= 1
    /\ heap = "freed"
    /\ fcloses = 1
    /\ ret = 0

\* ------------------------------------------------------------- C10
\* C10: save_bmp24 returns 0 whenever one of its writes failed: the file
\* header, the info header, a pixel row, or the padding after a row.
WriteFailureReported ==
    (SaveReturned
     /\ faults \cap {"fwrite_fh", "fwrite_ih", "fwrite_row", "fwrite_pad"} # {})
        => ret = 0

\* ------------------------------------------------------------- the transforms, as the claims read them
\* The last transform applied was op.
Applied(op) == hist # <<>> /\ hist[Len(hist)] = op

Indices == 1..(W * H)
ColOf(i) == (i - 1) % W
RowOf(i) == (i - 1) \div W

OnBorder(i) ==
    RowOf(i) = 0 \/ RowOf(i) = H - 1 \/ ColOf(i) = 0 \/ ColOf(i) = W - 1

IsGrey(p, v) == p.r = v /\ p.g = v /\ p.b = v

\* 1000 * (0.299 R + 0.587 G + 0.114 B), exactly.
ExactLuma1000(p) == 299 * p.r + 587 * p.g + 114 * p.b

\* The exact luma plus 0.5, truncated.
ExactRound(p) == (ExactLuma1000(p) + 500) \div 1000

\* ------------------------------------------------------------- C5
\* C5 as stated: to_grayscale replaces every pixel (R,G,B) by (g,g,g) with
\* g = 0.299 R + 0.587 G + 0.114 B plus 0.5, truncated, clamped to [0,255].
GrayscaleExact ==
    Applied("gray") =>
        \A i \in Indices :
            IsGrey(img[i], clamp_int_to_u8(ExactRound(pre[i])))

\* C5 as amended: to_grayscale replaces every pixel (R,G,B) by (g,g,g) where
\* g in 0..255 is 0.299 R + 0.587 G + 0.114 B plus 0.5, truncated, except
\* that where that sum is a whole number k the result is k or k-1; (255,0,0)
\* becomes 76, (0,255,0) 150, (0,0,255) 29 and (255,255,255) 255.
GrayscaleNearest ==
    Applied("gray") =>
        \A i \in Indices :
            LET g == img[i].r
                tie == (ExactLuma1000(pre[i]) + 500) % 1000 = 0
            IN  /\ IsGrey(img[i], g)
                /\ g \in 0..255
                /\ \/ g = ExactRound(pre[i])
                   \/ tie /\ g = ExactRound(pre[i]) - 1
                /\ pre[i] = Pix(255, 0, 0) => g = 76
                /\ pre[i] = Pix(0, 255, 0) => g = 150
                /\ pre[i] = Pix(0, 0, 255) => g = 29
                /\ pre[i] = Pix(255, 255, 255) => g = 255

\* The four colours of the claim and the colour (0,36,12), whose luma is
\* exactly 22.5, have been converted; the last one became 22.
GrayscaleWitness ==
    /\ hist = <<"gray">>
    /\ Len(pre) >= 5
    /\ pre[1] = Pix(255, 0, 0) /\ IsGrey(img[1], 76)
    /\ pre[2] = Pix(0, 255, 0) /\ IsGrey(img[2], 150)
    /\ pre[3] = Pix(0, 0, 255) /\ IsGrey(img[3], 29)
    /\ pre[4] = Pix(255, 255, 255) /\ IsGrey(img[4], 255)
    /\ pre[5] = Pix(0, 36, 12) /\ IsGrey(img[5], 22)

\* ------------------------------------------------------------- C6
\* C6: to_grayscale applied straight after to_grayscale leaves every pixel
\* of the array, of any width and height, as the first application left it.
GrayscaleIdempotent ==
    (Len(hist) >= 2 /\ hist[Len(hist)] = "gray" /\ hist[Len(hist) - 1] = "gray")
        => img = pre

\* to_grayscale has run twice on an array of several grey levels.
IdempotentWitness ==
    /\ hist = <<"gray", "gray">>
    /\ W * H >= 6
    /\ img = pre
    /\ img[1] # img[2]
    /\ img[5].r = 22

\* ------------------------------------------------------------- C7
\* C7: after convolve3x3 every pixel of row 0, row H-1, column 0 and column
\* W-1 has its three channels equal to its red channel before the call; a
\* pixel whose red channel changed is an interior pixel (rows 1..H-2,
\* columns 1..W-2); and when W < 3 or H < 3 no red channel changes.
BorderPolicy ==
    /\ Applied("conv") =>
           /\ \A i \in Indices : OnBorder(i) => IsGrey(img[i], pre[i].r)
           /\ \A i \in Indices :
                  img[i].r # pre[i].r =>
                      /\ RowOf(i) \in 1..(H - 2)
                      /\ ColOf(i) \in 1..(W - 2)
           /\ (W < 3 \/ H < 3) => \A i \in Indices : img[i].r = pre[i].r
    /\ Applied("conv_nomem") => img = pre

\* A grey image of at least 3x3 has been convolved: an interior pixel
\* changed, the border did not.
BorderWitness ==
    /\ hist = <<"gray", "conv">>
    /\ W >= 3
    /\ H >= 3
    /\ \E i \in Indices : ~OnBorder(i) /\ img[i].r # pre[i].r
    /\ \E i \in Indices : OnBorder(i) /\ img[i].r \in 1..254
    /\ \A i \in Indices : OnBorder(i) => img[i] = pre[i]

\* ------------------------------------------------------------- C8
\* q + 0.5 truncated toward zero, for q = acc / n.
RoundHalf(acc, n) ==
    LET num == IF n > 0 THEN 2 * acc + n ELSE -(2 * acc + n)
        den == IF n > 0 THEN 2 * n ELSE -(2 * n)
    IN  IF num >= 0 THEN num \div den ELSE -((-num) \div den)

WeightedSum(i) ==
    LET t(dy, dx) ==
            pre[(RowOf(i) + dy) * W + (ColOf(i) + dx) + 1].r
            * kernel[dy + 2][dx + 2]
    IN  t(-1, -1) + t(-1, 0) + t(-1, 1) + t(0, -1) + t(0, 0) + t(0, 1)
        + t(1, -1) + t(1, 0) + t(1, 1)

WeightSum ==
    kernel[1][1] + kernel[1][2] + kernel[1][3] + kernel[2][1] + kernel[2][2]
    + kernel[2][3] + kernel[3][1] + kernel[3][2] + kernel[3][3]

\* C8: after convolve3x3 every interior pixel has its three channels equal
\* to the weighted sum of its 3x3 neighbourhood in the red plane before the
\* call, divided by the sum of the weights if that is not zero and by 1 if
\* it is, plus 0.5, truncated, clamped to [0,255].
ZeroSumKernel ==
    Applied("conv") =>
        \A i \in Indices :
            ~OnBorder(i) =>
                IsGrey(img[i],
                       clamp_int_to_u8(
                           RoundHalf(WeightedSum(i),
                                     IF WeightSum = 0 THEN 1 ELSE WeightSum)))

\* The Laplacian (weights summing to 0) has been applied to a grey image
\* and left an interior pixel strictly between 0 and 255, its weighted sum.
ZeroSumWitness ==
    /\ hist = <<"gray", "conv">>
    /\ kernel = Laplacian
    /\ WeightSum = 0
    /\ \E i \in Indices :
           /\ ~OnBorder(i)
           /\ img[i].r \in 1..254
           /\ img[i].r = WeightedSum(i)
           /\ img[i].r # pre[i].r

====
